---- MODULE Spec2Model ----
(***************************************************************************)
(* Camp management backend (FastAPI + SQLAlchemy): bearer-token sessions,  *)
(* role gate, camper ownership, enrollment, groups, events and the parent  *)
(* schedule aggregation.  Every HTTP handler is one atomic action: the     *)
(* dependency chain require_role -> require_auth -> get_user_by_token runs *)
(* first, then the handler body, every db.commit() included.               *)
(* Where the interleaving of requests matters, a handler is also given     *)
(* commit by commit, its locals kept in pending between its steps.         *)
(*                                                                         *)
(* Tables are the variables.  A table whose primary key is read by the     *)
(* code (users, campers, camp_years, enrollments, groups, group_events) is *)
(* a sequence, the row id being the index (autoincrement, no handler       *)
(* deletes such rows).  A table whose id is never read (session_tokens,    *)
(* parent_campers, group_memberships) is a set of rows.                    *)
(***************************************************************************)
EXTENDS Integers, Sequences, FiniteSets, TLC

VARIABLES
    users,          \* users table: <<[email, password_hash, role, is_active]>>
    tokens,         \* session_tokens table: {[token, user_id, expires_at]}
    minted,         \* number of token values drawn from secrets.token_urlsafe so far
    campers,        \* campers table: <<[first_name, last_name]>>
    parent_campers, \* parent_campers table: {[parent_user_id, camper_id]}
    camp_years,     \* camp_years table: <<[year, is_active]>>
    enrollments,    \* enrollments table: <<[camp_year_id, camper_id, status, notes]>>
    groups,         \* groups table: <<[camp_year_id, name]>>
    memberships,    \* group_memberships table: {[group_id, camper_id]}
    events,         \* group_events table: <<[group_id, start_time, end_time]>>
    now,            \* datetime.now(timezone.utc), in minutes
    pending,        \* requests between two of their commits: the handler's locals
    resp            \* the last request and its response

vars == <<users, tokens, minted, campers, parent_campers, camp_years,
          enrollments, groups, memberships, events, now, pending, resp>>

domainVars == <<campers, parent_campers, camp_years, enrollments, groups,
                memberships, events>>

(***************************************************************************)
(* Program constants                                                       *)
(***************************************************************************)
TOKEN_TTL_MINUTES == 720
APP_SEED_ADMIN_EMAIL == "admin@camp.local"
APP_SEED_ADMIN_PASSWORD == "admin1234"
APP_SEED_CAMP_YEAR == 2026

\* HTTP status codes raised by the handlers
OK == 200
BadRequest400 == 400
Unauthorized == 401
Forbidden == 403
NotFound == 404
\* an unhandled sqlalchemy IntegrityError surfaces as 500
ServerError == 500

\* HTTPBearer(auto_error=False) yields no credentials: modelled as token value 0
NoCred == 0
\* "no row" (.first() returned None) / Optional[int] query parameter left out
None == 0

(***************************************************************************)
(* Bounds of the model                                                     *)
(***************************************************************************)
MaxUsers == 3        \* rows in users
MaxTokens == 3       \* token values ever minted
MaxTime == 721       \* the clock stops here

Emails == {APP_SEED_ADMIN_EMAIL, "p1@camp.local", "p2@camp.local"}
\* passwords tried at login, and the password new accounts register with
Passwords == {APP_SEED_ADMIN_PASSWORD, "secret1"}
NewPasswords == {"secret1"}
\* the clock advances by a full TTL or by a TTL and a minute
TickSteps == {TOKEN_TTL_MINUTES, TOKEN_TTL_MINUTES + 1}
\* bearer credentials a client may present: none, or any token value
Credentials == {NoCred} \cup (1..MaxTokens)

(***************************************************************************)
(* auth.py                                                                 *)
(***************************************************************************)
\* passlib bcrypt: a one-way digest of the password (the salt is left out)
hash_password(password) == <<"bcrypt", password>>

verify_password(password, password_hash) == password_hash = hash_password(password)

\* a plausible slip: the TTL is not added to the expiry
create_token_no_ttl(token_value, user_id, clock) ==
    [token |-> token_value, user_id |-> user_id, expires_at |-> clock]

\* the row create_token adds for user_id at time clock with value token_value
create_token(token_value, user_id, clock) ==
    [token |-> token_value, user_id |-> user_id,
     expires_at |-> clock + TOKEN_TTL_MINUTES]

\* a plausible slip: the is_active filter is left out
AnyUser(usrs, id) ==
    IF id \in 1..Len(usrs) THEN id ELSE None

\* db.query(User).filter(User.id == id, User.is_active == True).first()
ActiveUser(usrs, id) ==
    IF id \in 1..Len(usrs) /\ usrs[id].is_active THEN id ELSE None

\* a plausible slip: the expired token is refused but its row is kept
get_user_by_token_keeps_expired(toks, usrs, clock, token_value) ==
    LET found == {t \in toks : t.token = token_value} IN
    IF found = {} THEN [user |-> None, tokens |-> toks]
    ELSE LET tok == CHOOSE t \in found : TRUE IN
         IF tok.expires_at < clock
         THEN [user |-> None, tokens |-> toks]
         ELSE [user |-> ActiveUser(usrs, tok.user_id), tokens |-> toks]

\* a plausible slip: a resolve sweeps every expired token out of the table
get_user_by_token_sweeps(toks, usrs, clock, token_value) ==
    LET found == {t \in toks : t.token = token_value}
        kept == {t \in toks : ~(t.expires_at < clock)} IN
    IF found = {} THEN [user |-> None, tokens |-> kept]
    ELSE LET tok == CHOOSE t \in found : TRUE IN
         IF tok.expires_at < clock
         THEN [user |-> None, tokens |-> kept]
         ELSE [user |-> ActiveUser(usrs, tok.user_id), tokens |-> kept]

\* a plausible slip: <= in place of <, so a token ends a minute early
get_user_by_token_expires_early(toks, usrs, clock, token_value) ==
    LET found == {t \in toks : t.token = token_value} IN
    IF found = {} THEN [user |-> None, tokens |-> toks]
    ELSE LET tok == CHOOSE t \in found : TRUE IN
         IF tok.expires_at <= clock
         THEN [user |-> None, tokens |-> toks \ {tok}]
         ELSE [user |-> ActiveUser(usrs, tok.user_id), tokens |-> toks]

\* get_user_by_token: the user found (None if none) and the tokens table after
get_user_by_token(toks, usrs, clock, token_value) ==
    LET found == {t \in toks : t.token = token_value} IN
    IF found = {} THEN [user |-> None, tokens |-> toks]
    ELSE LET tok == CHOOSE t \in found : TRUE IN
         IF tok.expires_at < clock
         THEN [user |-> None, tokens |-> toks \ {tok}]
         ELSE [user |-> ActiveUser(usrs, tok.user_id), tokens |-> toks]

\* require_auth: status, detail, the user and the tokens table after
require_auth(cred) ==
    IF cred = NoCred
    THEN [status |-> Unauthorized, detail |-> "Not authenticated",
          user |-> None, tokens |-> tokens]
    ELSE LET r == get_user_by_token(tokens, users, now, cred) IN
         IF r.user = None
         THEN [status |-> Unauthorized, detail |-> "Invalid or expired token",
               user |-> None, tokens |-> r.tokens]
         ELSE [status |-> OK, detail |-> "", user |-> r.user, tokens |-> r.tokens]

\* f"Requires role '{role}'"
RoleDetail(role) ==
    IF role = "admin" THEN "Requires role 'admin'" ELSE "Requires role 'parent'"

\* a plausible slip: the admin passes every role gate (a role hierarchy)
RoleMatchesHierarchy(user_role, role) == user_role = role \/ user_role = "admin"

\* the role test of require_role's _checker
RoleMatches(user_role, role) == user_role = role

\* require_role(role): require_auth, then the role test
require_role(role, cred) ==
    LET a == require_auth(cred) IN
    IF a.status # OK THEN a
    ELSE IF ~RoleMatches(users[a.user].role, role)
         THEN [status |-> Forbidden, detail |-> RoleDetail(role), user |-> a.user,
               tokens |-> a.tokens]
         ELSE a

(***************************************************************************)
(* Responses                                                               *)
(***************************************************************************)
\* op: the handler; role: the role the endpoint requires ("" if none);
\* cred: the credential presented; user: the account it resolved to;
\* arg: the request's parameters; out: the response body
Response(op, role, cred, user, status, detail, arg, out) ==
    [op |-> op, role |-> role, cred |-> cred, user |-> user, status |-> status,
     detail |-> detail, arg |-> arg, out |-> out]

\* the request was stopped by the dependency chain: only tokens may change
Rejected(op, role, cred, gate) ==
    /\ tokens' = gate.tokens
    /\ resp' = Response(op, role, cred, gate.user, gate.status, gate.detail, <<>>, <<>>)
    /\ UNCHANGED <<users, minted, now, pending>>
    /\ UNCHANGED domainVars

(***************************************************************************)
(* Startup                                                                 *)
(***************************************************************************)
SeedAdmin ==
    [email |-> APP_SEED_ADMIN_EMAIL,
     password_hash |-> hash_password(APP_SEED_ADMIN_PASSWORD),
     role |-> "admin", is_active |-> TRUE]

\* A database kept from an earlier run may hold an account the operator has
\* switched off in storage (no endpoint writes is_active), with a session
\* token issued to it before that.
FormerParent ==
    [email |-> "p1@camp.local", password_hash |-> hash_password("secret1"),
     role |-> "parent", is_active |-> FALSE]

\* on_startup: create_all, then seed_admin_and_year on an empty database or on
\* the database of an earlier run
Init ==
    /\ \/ /\ users = <<SeedAdmin>>
          /\ tokens = {}
          /\ minted = 0
       \/ /\ users = <<FormerParent, SeedAdmin>>
          /\ tokens = {create_token(1, 1, 0)}
          /\ minted = 1
    /\ campers = <<>>
    /\ parent_campers = {}
    /\ camp_years = <<[year |-> APP_SEED_CAMP_YEAR, is_active |-> TRUE]>>
    /\ enrollments = <<>>
    /\ groups = <<>>
    /\ memberships = {}
    /\ events = <<>>
    /\ now = 0
    /\ pending = {}
    /\ resp = Response("startup", "", NoCred, None, OK, "", <<>>, <<>>)

(***************************************************************************)
(* Time                                                                    *)
(***************************************************************************)
Tick ==
    \E d \in TickSteps :
        /\ now + d <= MaxTime
        /\ now' = now + d
        /\ UNCHANGED <<users, tokens, minted, pending, resp>>
        /\ UNCHANGED domainVars

(***************************************************************************)
(* mainoriginal.py: auth endpoints                                         *)
(***************************************************************************)
\* db.query(User).filter(User.email == email).first()
UserByEmail(usrs, email) ==
    IF \E i \in 1..Len(usrs) : usrs[i].email = email
    THEN CHOOSE i \in 1..Len(usrs) :
            /\ usrs[i].email = email
            /\ \A j \in 1..(i - 1) : usrs[j].email # email
    ELSE None

\* a plausible slip: the existence test is left out
EmailNeverTaken(usrs, email) == FALSE

\* the existence test of register_parent / admin_create_parent
EmailTaken(usrs, email) == UserByEmail(usrs, email) # None

NewParent(email, password) ==
    [email |-> email, password_hash |-> hash_password(password),
     role |-> "parent", is_active |-> TRUE]

\* POST /api/auth/register-parent
RegisterParent ==
    \E email \in Emails, password \in NewPasswords :
        LET arg == [email |-> email] IN
        /\ EmailTaken(users, email) \/ Len(users) < MaxUsers
        /\ IF EmailTaken(users, email)
           THEN /\ resp' = Response("register_parent", "", NoCred, None, BadRequest400,
                                    "Email already registered", arg, <<>>)
                /\ UNCHANGED users
           ELSE /\ users' = Append(users, NewParent(email, password))
                /\ resp' = Response("register_parent", "", NoCred, None, OK, "", arg,
                                    <<Len(users) + 1>>)
        /\ UNCHANGED <<tokens, minted, now, pending>>
        /\ UNCHANGED domainVars

\* db.query(User).filter(User.email == email, User.is_active == True).first()
ActiveUserByEmail(usrs, email) ==
    IF \E i \in 1..Len(usrs) : usrs[i].email = email /\ usrs[i].is_active
    THEN CHOOSE i \in 1..Len(usrs) : usrs[i].email = email /\ usrs[i].is_active
    ELSE None

\* POST /api/auth/login
Login ==
    \E email \in Emails, password \in Passwords :
        LET user == ActiveUserByEmail(users, email)
            arg == [email |-> email, password |-> password]
            refused == IF user = None THEN TRUE
                       ELSE ~verify_password(password, users[user].password_hash) IN
        /\ refused \/ minted < MaxTokens
        /\ IF refused
           THEN /\ resp' = Response("login", "", NoCred, None, Unauthorized,
                                    "Invalid credentials", arg, <<>>)
                /\ UNCHANGED <<tokens, minted>>
           ELSE LET tok == create_token(minted + 1, user, now) IN
                /\ tokens' = tokens \cup {tok}
                /\ minted' = minted + 1
                /\ resp' = Response("login", "", NoCred, user, OK, "", arg, <<tok>>)
        /\ UNCHANGED <<users, now, pending>>
        /\ UNCHANGED domainVars

\* GET /api/auth/me
Me ==
    \E cred \in Credentials :
        LET gate == require_auth(cred) IN
        IF gate.status # OK
        THEN Rejected("me", "", cred, gate)
        ELSE /\ resp' = Response("me", "", cred, gate.user, OK, "", <<>>, <<gate.user>>)
             /\ tokens' = gate.tokens
             /\ UNCHANGED <<users, minted, now, pending>>
             /\ UNCHANGED domainVars

\* POST /api/admin/parents
AdminCreateParent ==
    \E cred \in Credentials, email \in Emails, password \in NewPasswords :
        LET gate == require_role("admin", cred)
            arg == [email |-> email] IN
        /\ gate.status # OK \/ EmailTaken(users, email) \/ Len(users) < MaxUsers
        /\ IF gate.status # OK
           THEN Rejected("admin_create_parent", "admin", cred, gate)
           ELSE /\ IF EmailTaken(users, email)
                   THEN /\ resp' = Response("admin_create_parent", "admin", cred, gate.user,
                                            BadRequest400, "Email already exists", arg, <<>>)
                        /\ UNCHANGED users
                   ELSE /\ users' = Append(users, NewParent(email, password))
                        /\ resp' = Response("admin_create_parent", "admin", cred, gate.user,
                                            OK, "", arg, <<Len(users) + 1>>)
                /\ tokens' = gate.tokens
                /\ UNCHANGED <<minted, now, pending>>
                /\ UNCHANGED domainVars

(***************************************************************************)
(* mainoriginal.py: utilities                                              *)
(***************************************************************************)
\* db.query(CampYear).filter(CampYear.year == year_value).first()
CampYearByYear(cys, year_value) ==
    IF \E i \in 1..Len(cys) : cys[i].year = year_value
    THEN CHOOSE i \in 1..Len(cys) : cys[i].year = year_value
    ELSE None

\* get_or_create_camp_year: the camp year's id and the camp_years table after
\* (the new row is committed at once)
get_or_create_camp_year(cys, year_value) ==
    LET cy == CampYearByYear(cys, year_value) IN
    IF cy = None
    THEN [id |-> Len(cys) + 1,
          camp_years |-> Append(cys, [year |-> year_value, is_active |-> FALSE])]
    ELSE [id |-> cy, camp_years |-> cys]

\* ensure_parent_owns_camper passes (does not raise 403)
ensure_parent_owns_camper(pcs, parent_user_id, camper_id) ==
    \E link \in pcs : link.parent_user_id = parent_user_id /\ link.camper_id = camper_id

(***************************************************************************)
(* Inputs of the domain requests                                           *)
(***************************************************************************)
MaxCampers == 2       \* rows in campers a run may add up to
MaxEvents == 2        \* rows in group_events

Years == {APP_SEED_CAMP_YEAR, APP_SEED_CAMP_YEAR + 1}
CamperNames == {<<"Ann", "Lee">>}
\* groups.name is String(200); GroupCreate.name has a minimum length only,
\* so a request may carry a name of 201 characters
GROUP_NAME_LENGTH == 200
LongName ==
    "Reddddddddddddddddddddddddddddddddddddddddddddddddddddddddddddddddddddddddddddddddddddddddddddddddddddddddddddddddddddddddddddddddddddddddddddddddddddddddddddddddddddddddddddddddddddddddddddddddddddddd"
GroupNames == {"Red", LongName}
\* notes = None (the column is nullable)
NoNotes == ""
\* EnrollmentUpdate bodies that pass the schema's status pattern
Updates == {[status |-> "admitted", notes |-> "ok"],
            [status |-> "withdrawn", notes |-> NoNotes]}
\* (start_time, end_time) of GroupEventCreate, in hours
EventTimes == {<<1, 2>>, <<2, 3>>, <<2, 2>>, <<3, 1>>}
\* the optional query parameters of the schedule view
CamperFilters == {None, 1, 3}
YearFilters == {None, APP_SEED_CAMP_YEAR + 1}
\* ids a request may name: those of the rows of a table, and one that has no row
IdsOf(table) == 1..(Len(table) + 1)

(***************************************************************************)
(* mainoriginal.py: campers                                                *)
(***************************************************************************)
NewCamper(name) == [first_name |-> name[1], last_name |-> name[2]]

\* POST /api/admin/campers
AdminCreateCamper ==
    \E cred \in Credentials :
        LET gate == require_role("admin", cred) IN
        IF gate.status # OK
        THEN Rejected("admin_create_camper", "admin", cred, gate)
        ELSE \E name \in CamperNames :
                /\ Len(campers) < MaxCampers
                /\ campers' = Append(campers, NewCamper(name))
                /\ resp' = Response("admin_create_camper", "admin", cred, gate.user, OK, "",
                                    <<>>, <<Len(campers) + 1>>)
                /\ tokens' = gate.tokens
                /\ UNCHANGED <<users, minted, now, pending, parent_campers, camp_years,
                               enrollments, groups, memberships, events>>

\* POST /api/parent/campers: the camper row, then the ownership link
ParentAddChild ==
    \E cred \in Credentials :
        LET gate == require_role("parent", cred) IN
        IF gate.status # OK
        THEN Rejected("parent_add_child", "parent", cred, gate)
        ELSE \E name \in CamperNames :
                LET link == [parent_user_id |-> gate.user, camper_id |-> Len(campers) + 1] IN
                /\ Len(campers) < MaxCampers
                /\ campers' = Append(campers, NewCamper(name))
                /\ parent_campers' = parent_campers \cup {link}
                /\ resp' = Response("parent_add_child", "parent", cred, gate.user, OK, "",
                                    <<>>, <<link>>)
                /\ tokens' = gate.tokens
                /\ UNCHANGED <<users, minted, now, pending, camp_years, enrollments, groups,
                               memberships, events>>

\* GET /api/admin/campers: the rows of campers, newest first
AdminListCampers ==
    \E cred \in Credentials :
        LET gate == require_role("admin", cred) IN
        IF gate.status # OK
        THEN Rejected("admin_list_campers", "admin", cred, gate)
        ELSE /\ resp' = Response("admin_list_campers", "admin", cred, gate.user, OK, "",
                                 <<>>, [i \in 1..Len(campers) |-> Len(campers) + 1 - i])
             /\ tokens' = gate.tokens
             /\ UNCHANGED <<users, minted, now, pending>>
             /\ UNCHANGED domainVars

(***************************************************************************)
(* parent_add_child, commit by commit.  The handler calls db.commit()      *)
(* twice; the handlers run in a thread pool, each with its own session, so *)
(* other requests run between the two commits and read what the first one  *)
(* stored.                                                                 *)
(***************************************************************************)
\* the dependency chain, db.add(camper), the first db.commit(), db.refresh
ParentAddChildCamper ==
    \E cred \in Credentials :
        LET gate == require_role("parent", cred) IN
        IF gate.status # OK
        THEN Rejected("parent_add_child", "parent", cred, gate)
        ELSE \E name \in CamperNames :
                /\ Len(campers) < MaxCampers
                /\ campers' = Append(campers, NewCamper(name))
                /\ pending' = pending \cup
                        {[op |-> "parent_add_child", cred |-> cred, user |-> gate.user,
                          camper_id |-> Len(campers) + 1]}
                /\ tokens' = gate.tokens
                /\ UNCHANGED <<users, minted, now, resp, parent_campers, camp_years,
                               enrollments, groups, memberships, events>>

\* db.add(link), the second db.commit(), db.refresh, return link
ParentAddChildLink ==
    \E r \in {p \in pending : p.op = "parent_add_child"} :
        LET link == [parent_user_id |-> r.user, camper_id |-> r.camper_id] IN
        /\ parent_campers' = parent_campers \cup {link}
        /\ pending' = pending \ {r}
        /\ resp' = Response("parent_add_child", "parent", r.cred, r.user, OK, "",
                            <<>>, <<link>>)
        /\ UNCHANGED <<users, tokens, minted, now, campers, camp_years, enrollments,
                       groups, memberships, events>>

\* the second db.commit() raises (the connection to the database is lost):
\* the session is closed by get_db, the link is not stored, and the camper
\* of the first commit stays
ParentAddChildLinkFails ==
    \E r \in {p \in pending : p.op = "parent_add_child"} :
        /\ pending' = pending \ {r}
        /\ resp' = Response("parent_add_child", "parent", r.cred, r.user, ServerError,
                            "OperationalError", <<>>, <<>>)
        /\ UNCHANGED <<users, tokens, minted, now>>
        /\ UNCHANGED domainVars

(***************************************************************************)
(* mainoriginal.py: enrollments                                            *)
(***************************************************************************)
\* a plausible slip: the existence test is left out
NoEnrollmentFor(enrs, camp_year_id, camper_id) == None

\* db.query(Enrollment).filter(camp_year_id == cy, camper_id == camper).first()
EnrollmentFor(enrs, camp_year_id, camper_id) ==
    IF \E i \in 1..Len(enrs) :
            enrs[i].camp_year_id = camp_year_id /\ enrs[i].camper_id = camper_id
    THEN CHOOSE i \in 1..Len(enrs) :
            enrs[i].camp_year_id = camp_year_id /\ enrs[i].camper_id = camper_id
    ELSE None

NewEnrollment(camp_year_id, camper_id) ==
    [camp_year_id |-> camp_year_id, camper_id |-> camper_id,
     status |-> "pending", notes |-> NoNotes]

\* POST /api/parent/enrollments
ParentEnroll ==
    \E cred \in Credentials :
        LET gate == require_role("parent", cred) IN
        IF gate.status # OK
        THEN Rejected("parent_enroll", "parent", cred, gate)
        ELSE \E camper_id \in IdsOf(campers), camp_year \in Years :
            LET arg == [camper_id |-> camper_id, camp_year |-> camp_year]
                cy == get_or_create_camp_year(camp_years, camp_year)
                existing == EnrollmentFor(enrollments, cy.id, camper_id) IN
            /\ tokens' = gate.tokens
            /\ UNCHANGED <<users, minted, now, pending, campers, parent_campers, groups,
                           memberships, events>>
            /\ IF ~ensure_parent_owns_camper(parent_campers, gate.user, camper_id)
               THEN /\ resp' = Response("parent_enroll", "parent", cred, gate.user,
                                        Forbidden, "Parent does not own this camper",
                                        arg, <<>>)
                    /\ UNCHANGED <<camp_years, enrollments>>
               ELSE /\ camp_years' = cy.camp_years
                    /\ IF existing # None
                       THEN /\ resp' = Response("parent_enroll", "parent", cred, gate.user,
                                                BadRequest400,
                                                "Already enrolled for this camp year",
                                                arg, <<>>)
                            /\ UNCHANGED enrollments
                       ELSE /\ enrollments' =
                                   Append(enrollments, NewEnrollment(cy.id, camper_id))
                            /\ resp' = Response("parent_enroll", "parent", cred, gate.user,
                                                OK, "", arg, <<Len(enrollments) + 1>>)

\* PUT /api/parent/enrollments/{enrollment_id}
ParentUpdateEnrollment ==
    \E cred \in Credentials :
        LET gate == require_role("parent", cred) IN
        IF gate.status # OK
        THEN Rejected("parent_update_enrollment", "parent", cred, gate)
        ELSE \E enrollment_id \in IdsOf(enrollments), payload \in Updates :
            LET arg == [enrollment_id |-> enrollment_id, payload |-> payload] IN
            /\ tokens' = gate.tokens
            /\ UNCHANGED <<users, minted, now, pending, campers, parent_campers, camp_years,
                           groups, memberships, events>>
            /\ IF enrollment_id \notin 1..Len(enrollments)
               THEN /\ resp' = Response("parent_update_enrollment", "parent", cred,
                                        gate.user, NotFound, "Enrollment not found",
                                        arg, <<>>)
                    /\ UNCHANGED enrollments
               ELSE IF ~ensure_parent_owns_camper(parent_campers, gate.user,
                                                  enrollments[enrollment_id].camper_id)
               THEN /\ resp' = Response("parent_update_enrollment", "parent", cred,
                                        gate.user, Forbidden,
                                        "Parent does not own this camper", arg, <<>>)
                    /\ UNCHANGED enrollments
               ELSE /\ enrollments' =
                           [enrollments EXCEPT ![enrollment_id].status = payload.status,
                                               ![enrollment_id].notes = payload.notes]
                    /\ resp' = Response("parent_update_enrollment", "parent", cred,
                                        gate.user, OK, "", arg, <<enrollment_id>>)

(***************************************************************************)
(* mainoriginal.py: groups, memberships, events                            *)
(***************************************************************************)
\* uq_group_year_name: a row with this (camp_year_id, name) is already stored
GroupNameTaken(grps, camp_year_id, name) ==
    \E i \in 1..Len(grps) : grps[i].camp_year_id = camp_year_id /\ grps[i].name = name

\* POST /api/admin/groups: no existence test in the handler; the insert of a
\* duplicate (camp year, name) violates uq_group_year_name and db.commit()
\* raises IntegrityError, which no handler catches
\* (likewise DataError for a name longer than the column).  The camp year is
\* committed by get_or_create_camp_year before the group is added.
AdminCreateGroup ==
    \E cred \in Credentials :
        LET gate == require_role("admin", cred) IN
        IF gate.status # OK
        THEN Rejected("admin_create_group", "admin", cred, gate)
        ELSE \E camp_year \in Years, name \in GroupNames :
            LET arg == [camp_year |-> camp_year, name |-> name]
                cy == get_or_create_camp_year(camp_years, camp_year) IN
            /\ tokens' = gate.tokens
            /\ camp_years' = cy.camp_years
            /\ UNCHANGED <<users, minted, now, pending, campers, parent_campers, enrollments,
                           memberships, events>>
            /\ IF Len(name) > GROUP_NAME_LENGTH
               THEN /\ resp' = Response("admin_create_group", "admin", cred, gate.user,
                                        ServerError, "DataError", arg, <<>>)
                    /\ UNCHANGED groups
               ELSE IF GroupNameTaken(groups, cy.id, name)
               THEN /\ resp' = Response("admin_create_group", "admin", cred, gate.user,
                                        ServerError, "IntegrityError", arg, <<>>)
                    /\ UNCHANGED groups
               ELSE /\ groups' = Append(groups, [camp_year_id |-> cy.id, name |-> name])
                    /\ resp' = Response("admin_create_group", "admin", cred, gate.user,
                                        OK, "", arg, <<Len(groups) + 1>>)

\* the existence test of admin_add_group_member
MembershipExists(mems, group_id, camper_id) ==
    \E m \in mems : m.group_id = group_id /\ m.camper_id = camper_id

\* POST /api/admin/groups/{group_id}/members
AdminAddGroupMember ==
    \E cred \in Credentials :
        LET gate == require_role("admin", cred) IN
        IF gate.status # OK
        THEN Rejected("admin_add_group_member", "admin", cred, gate)
        ELSE \E group_id \in IdsOf(groups), camper_id \in IdsOf(campers) :
            LET arg == [group_id |-> group_id, camper_id |-> camper_id]
                Fail(status, detail) ==
                    /\ resp' = Response("admin_add_group_member", "admin", cred, gate.user,
                                        status, detail, arg, <<>>)
                    /\ UNCHANGED memberships IN
            /\ tokens' = gate.tokens
            /\ UNCHANGED <<users, minted, now, pending, campers, parent_campers, camp_years,
                           enrollments, groups, events>>
            /\ IF group_id \notin 1..Len(groups)
               THEN Fail(NotFound, "Group not found")
               ELSE IF camper_id \notin 1..Len(campers)
               THEN Fail(NotFound, "Camper not found")
               ELSE IF MembershipExists(memberships, group_id, camper_id)
               THEN Fail(BadRequest400, "Camper already in group")
               ELSE /\ memberships' = memberships \cup {arg}
                    /\ resp' = Response("admin_add_group_member", "admin", cred,
                                        gate.user, OK, "", arg, <<arg>>)

\* a plausible slip: < in place of <=, so an empty event is stored
EventTimesRefusedStrict(start_time, end_time) == end_time < start_time

\* the time test of admin_create_event: the request is refused
EventTimesRefused(start_time, end_time) == end_time <= start_time

\* POST /api/admin/events
AdminCreateEvent ==
    \E cred \in Credentials :
        LET gate == require_role("admin", cred) IN
        IF gate.status # OK
        THEN Rejected("admin_create_event", "admin", cred, gate)
        ELSE \E group_id \in IdsOf(groups), times \in EventTimes :
            LET arg == [group_id |-> group_id, start_time |-> times[1],
                        end_time |-> times[2]]
                Fail(status, detail) ==
                    /\ resp' = Response("admin_create_event", "admin", cred, gate.user,
                                        status, detail, arg, <<>>)
                    /\ UNCHANGED events IN
            /\ tokens' = gate.tokens
            /\ UNCHANGED <<users, minted, now, pending, campers, parent_campers, camp_years,
                           enrollments, groups, memberships>>
            /\ IF group_id \notin 1..Len(groups)
               THEN Fail(NotFound, "Group not found")
               ELSE IF EventTimesRefused(times[1], times[2])
               THEN Fail(BadRequest400, "end_time must be after start_time")
               ELSE /\ Len(events) < MaxEvents
                    /\ events' = Append(events, arg)
                    /\ resp' = Response("admin_create_event", "admin", cred, gate.user,
                                        OK, "", arg, <<Len(events) + 1>>)

(***************************************************************************)
(* Inserts of a unique key, step by step.  A handler tests for an existing *)
(* row, then adds its row and commits; another request's commit may come   *)
(* between the test and the commit.  The storage then enforces the unique  *)
(* constraint: the second commit raises sqlalchemy's IntegrityError, which *)
(* no handler catches, and the request is answered 500.                    *)
(***************************************************************************)
MaxPending == 2      \* requests between their test and their commit

\* requests waiting to commit an insert
Inserting(pend) == {p \in pend : p.op # "parent_add_child"}

\* a request number no waiting request has
FreeSlots(pend) == (1..MaxPending) \ {p.slot : p \in Inserting(pend)}

NextSlot(pend) == CHOOSE n \in FreeSlots(pend) : \A m \in FreeSlots(pend) : n <= m

\* register_parent up to the existence test
RegisterParentCheck ==
    \E email \in Emails, password \in NewPasswords :
        LET arg == [email |-> email] IN
        /\ IF EmailTaken(users, email)
           THEN /\ resp' = Response("register_parent", "", NoCred, None, BadRequest400,
                                    "Email already registered", arg, <<>>)
                /\ UNCHANGED pending
           ELSE /\ FreeSlots(pending) # {}
                /\ pending' = pending \cup
                        {[op |-> "register_parent", slot |-> NextSlot(pending),
                          cred |-> NoCred, user |-> None, arg |-> arg,
                          row |-> NewParent(email, password)]}
                /\ UNCHANGED resp
        /\ UNCHANGED <<users, tokens, minted, now>>
        /\ UNCHANGED domainVars

\* register_parent from db.add(parent): uq_users_email decides
RegisterParentCommit ==
    \E r \in {p \in pending : p.op = "register_parent"} :
        /\ pending' = pending \ {r}
        /\ IF EmailTaken(users, r.row.email)
           THEN /\ resp' = Response("register_parent", "", NoCred, None, ServerError,
                                    "IntegrityError", r.arg, <<>>)
                /\ UNCHANGED users
           ELSE /\ Len(users) < MaxUsers
                /\ users' = Append(users, r.row)
                /\ resp' = Response("register_parent", "", NoCred, None, OK, "", r.arg,
                                    <<Len(users) + 1>>)
        /\ UNCHANGED <<tokens, minted, now>>
        /\ UNCHANGED domainVars

\* parent_enroll up to the existence test (the camp year is committed here)
ParentEnrollCheck ==
    \E cred \in Credentials :
        LET gate == require_role("parent", cred) IN
        IF gate.status # OK
        THEN Rejected("parent_enroll", "parent", cred, gate)
        ELSE \E camper_id \in IdsOf(campers), camp_year \in Years :
            LET arg == [camper_id |-> camper_id, camp_year |-> camp_year]
                cy == get_or_create_camp_year(camp_years, camp_year)
                existing == EnrollmentFor(enrollments, cy.id, camper_id) IN
            /\ tokens' = gate.tokens
            /\ UNCHANGED <<users, minted, now, campers, parent_campers, enrollments,
                           groups, memberships, events>>
            /\ IF ~ensure_parent_owns_camper(parent_campers, gate.user, camper_id)
               THEN /\ resp' = Response("parent_enroll", "parent", cred, gate.user,
                                        Forbidden, "Parent does not own this camper",
                                        arg, <<>>)
                    /\ UNCHANGED <<camp_years, pending>>
               ELSE /\ camp_years' = cy.camp_years
                    /\ IF existing # None
                       THEN /\ resp' = Response("parent_enroll", "parent", cred, gate.user,
                                                BadRequest400,
                                                "Already enrolled for this camp year",
                                                arg, <<>>)
                            /\ UNCHANGED pending
                       ELSE /\ FreeSlots(pending) # {}
                            /\ pending' = pending \cup
                                 {[op |-> "parent_enroll", slot |-> NextSlot(pending),
                                   cred |-> cred, user |-> gate.user, arg |-> arg,
                                   row |-> NewEnrollment(cy.id, camper_id)]}
                            /\ UNCHANGED resp

\* parent_enroll from db.add(enr): uq_year_camper decides
ParentEnrollCommit ==
    \E r \in {p \in pending : p.op = "parent_enroll"} :
        /\ pending' = pending \ {r}
        /\ IF EnrollmentFor(enrollments, r.row.camp_year_id, r.row.camper_id) # None
           THEN /\ resp' = Response("parent_enroll", "parent", r.cred, r.user,
                                    ServerError, "IntegrityError", r.arg, <<>>)
                /\ UNCHANGED enrollments
           ELSE /\ enrollments' = Append(enrollments, r.row)
                /\ resp' = Response("parent_enroll", "parent", r.cred, r.user, OK, "",
                                    r.arg, <<Len(enrollments) + 1>>)
        /\ UNCHANGED <<users, tokens, minted, now, campers, parent_campers, camp_years,
                       groups, memberships, events>>

\* admin_add_group_member up to the existence test
AdminAddGroupMemberCheck ==
    \E cred \in Credentials :
        LET gate == require_role("admin", cred) IN
        IF gate.status # OK
        THEN Rejected("admin_add_group_member", "admin", cred, gate)
        ELSE \E group_id \in IdsOf(groups), camper_id \in IdsOf(campers) :
            LET arg == [group_id |-> group_id, camper_id |-> camper_id]
                Fail(status, detail) ==
                    /\ resp' = Response("admin_add_group_member", "admin", cred, gate.user,
                                        status, detail, arg, <<>>)
                    /\ UNCHANGED pending IN
            /\ tokens' = gate.tokens
            /\ UNCHANGED <<users, minted, now>>
            /\ UNCHANGED domainVars
            /\ IF group_id \notin 1..Len(groups)
               THEN Fail(NotFound, "Group not found")
               ELSE IF camper_id \notin 1..Len(campers)
               THEN Fail(NotFound, "Camper not found")
               ELSE IF MembershipExists(memberships, group_id, camper_id)
               THEN Fail(BadRequest400, "Camper already in group")
               ELSE /\ FreeSlots(pending) # {}
                    /\ pending' = pending \cup
                         {[op |-> "admin_add_group_member", slot |-> NextSlot(pending),
                           cred |-> cred, user |-> gate.user, arg |-> arg, row |-> arg]}
                    /\ UNCHANGED resp

\* admin_add_group_member from db.add(m): uq_group_camper decides
AdminAddGroupMemberCommit ==
    \E r \in {p \in pending : p.op = "admin_add_group_member"} :
        /\ pending' = pending \ {r}
        /\ IF MembershipExists(memberships, r.row.group_id, r.row.camper_id)
           THEN /\ resp' = Response("admin_add_group_member", "admin", r.cred, r.user,
                                    ServerError, "IntegrityError", r.arg, <<>>)
                /\ UNCHANGED memberships
           ELSE /\ memberships' = memberships \cup {r.row}
                /\ resp' = Response("admin_add_group_member", "admin", r.cred, r.user,
                                    OK, "", r.arg, <<r.row>>)
        /\ UNCHANGED <<users, tokens, minted, now, campers, parent_campers, camp_years,
                       enrollments, groups, events>>

(***************************************************************************)
(* mainoriginal.py: parent schedule view                                   *)
(***************************************************************************)
\* a plausible slip: the parent_user_id filter is left out
AllLinkedCamperIds(pcs, user_id) == {pc.camper_id : pc \in pcs}

\* [pc.camper_id for pc in db.query(ParentCamper).filter(parent_user_id == user.id)]
OwnedCamperIds(pcs, user_id) ==
    {pc.camper_id : pc \in {l \in pcs : l.parent_user_id = user_id}}

\* db.query(GroupMembership).filter(GroupMembership.camper_id.in_(camper_ids)).all()
MembershipsOf(mems, camper_ids) == {m \in mems : m.camper_id \in camper_ids}

\* the rows of GroupEvent JOIN Group JOIN CampYear with group_id in group_ids and,
\* when camp_year is given, CampYear.year == camp_year
ScheduleEventIds(evs, grps, cys, group_ids, camp_year) ==
    {e \in 1..Len(evs) :
        /\ evs[e].group_id \in group_ids
        /\ evs[e].group_id \in 1..Len(grps)
        /\ grps[evs[e].group_id].camp_year_id \in 1..Len(cys)
        /\ camp_year # None => cys[grps[evs[e].group_id].camp_year_id].year = camp_year}

\* the orders in which a query may return the rows ids
Orderings(ids) ==
    {s \in [1..Cardinality(ids) -> ids] :
        \A i, j \in 1..Cardinality(ids) : i # j => s[i] # s[j]}

\* a plausible slip: the order_by is left out
AnyOrder(evs, ids) == Orderings(ids)

\* .order_by(GroupEvent.start_time.asc()).all(): the order among equal start
\* times is the storage engine's
OrderByStartTime(evs, ids) ==
    {s \in Orderings(ids) :
        \A i, j \in 1..Cardinality(ids) :
            i < j => evs[s[i]].start_time <= evs[s[j]].start_time}

\* ParentScheduleItem(...) for camper cid and event e
ScheduleItem(cid, e) ==
    [camper_id |-> cid,
     camper_name |-> <<campers[cid].first_name, " ", campers[cid].last_name>>,
     group_id |-> events[e].group_id,
     group_name |-> groups[events[e].group_id].name,
     event_id |-> e,
     start_time |-> events[e].start_time,
     end_time |-> events[e].end_time]

\* the inner loop: for cid, gids in camper_groups.items(), in the order cids
RECURSIVE ItemsOfEvent(_, _, _)
ItemsOfEvent(e, cids, mems) ==
    IF cids = <<>> THEN <<>>
    ELSE LET cid == Head(cids)
             gids == {m.group_id : m \in {x \in mems : x.camper_id = cid}}
             rest == ItemsOfEvent(e, Tail(cids), mems) IN
         IF /\ events[e].group_id \in gids
            /\ cid \in 1..Len(campers)
            /\ events[e].group_id \in 1..Len(groups)
         THEN <<ScheduleItem(cid, e)>> \o rest
         ELSE rest

\* the outer loop: for ev in events
RECURSIVE ScheduleItems(_, _, _)
ScheduleItems(evs, cids, mems) ==
    IF evs = <<>> THEN <<>>
    ELSE ItemsOfEvent(Head(evs), cids, mems) \o ScheduleItems(Tail(evs), cids, mems)

\* GET /api/parent/schedule
ParentViewSchedule ==
    \E cred \in Credentials :
        LET gate == require_role("parent", cred) IN
        IF gate.status # OK
        THEN Rejected("parent_view_schedule", "parent", cred, gate)
        ELSE \E camper_id \in CamperFilters, camp_year \in YearFilters :
            LET arg == [camper_id |-> camper_id, camp_year |-> camp_year]
                owned == OwnedCamperIds(parent_campers, gate.user)
                camper_ids == IF camper_id # None THEN {camper_id} ELSE owned
                mems == MembershipsOf(memberships, camper_ids)
                group_ids == {m.group_id : m \in mems}
                event_ids == ScheduleEventIds(events, groups, camp_years, group_ids,
                                              camp_year)
                Reply(status, detail, out) ==
                    resp' = Response("parent_view_schedule", "parent", cred, gate.user,
                                     status, detail, arg, out) IN
            /\ tokens' = gate.tokens
            /\ UNCHANGED <<users, minted, now, pending>>
            /\ UNCHANGED domainVars
            /\ IF owned = {}
               THEN Reply(OK, "", <<>>)
               ELSE IF camper_id # None /\ camper_id \notin owned
               THEN Reply(Forbidden, "Parent does not own this camper", <<>>)
               ELSE IF mems = {}
               THEN Reply(OK, "", <<>>)
               ELSE \E evs \in OrderByStartTime(events, event_ids),
                       cids \in Orderings({m.camper_id : m \in mems}) :
                       Reply(OK, "", ScheduleItems(evs, cids, mems))

(***************************************************************************)
(* Specifications                                                          *)
(***************************************************************************)
\* Sessions and accounts, from startup
NextAuth ==
    \/ Tick
    \/ RegisterParent
    \/ Login
    \/ Me
    \/ AdminCreateParent

Spec == Init /\ [][NextAuth]_vars

\* Two parents have registered and the admin and both parents have logged in
\* (register_parent twice, login three times, all at the time of startup)
Accounts ==
    <<SeedAdmin, NewParent("p1@camp.local", "secret1"),
      NewParent("p2@camp.local", "secret1")>>

Sessions == {create_token(u, u, 0) : u \in 1..3}

InitSessions ==
    /\ users = Accounts
    /\ tokens = Sessions
    /\ minted = Cardinality(Sessions)
    /\ now = 0
    /\ pending = {}
    /\ camp_years = <<[year |-> APP_SEED_CAMP_YEAR, is_active |-> TRUE]>>
    /\ enrollments = <<>>
    /\ groups = <<>>
    /\ memberships = {}
    /\ events = <<>>

\* Camper creation, by the admin and the two parents
InitCampers ==
    /\ InitSessions
    /\ campers = <<>>
    /\ parent_campers = {}
    /\ resp = Response("login", "", NoCred, 3, OK, "",
                       [email |-> "p2@camp.local", password |-> "secret1"],
                       <<create_token(3, 3, 0)>>)

NextCampers ==
    \/ AdminCreateCamper
    \/ ParentAddChild
    \/ ParentViewSchedule

SpecCampers == InitCampers /\ [][NextCampers]_vars

\* Children added commit by commit, with the admin reading the campers
NextChild ==
    \/ ParentAddChildCamper
    \/ ParentAddChildLink
    \/ ParentAddChildLinkFails
    \/ AdminCreateCamper
    \/ AdminListCampers

SpecChild == InitCampers /\ [][NextChild]_vars

\* Concurrent inserts: the admin and one parent are logged in, the parent owns
\* camper 1 and group 1 exists
InitRace ==
    /\ users = <<SeedAdmin, NewParent("p1@camp.local", "secret1")>>
    /\ tokens = {create_token(u, u, 0) : u \in 1..2}
    /\ minted = 2
    /\ now = 0
    /\ pending = {}
    /\ campers = <<NewCamper(<<"Ann", "Lee">>)>>
    /\ parent_campers = {[parent_user_id |-> 2, camper_id |-> 1]}
    /\ camp_years = <<[year |-> APP_SEED_CAMP_YEAR, is_active |-> TRUE]>>
    /\ enrollments = <<>>
    /\ groups = <<[camp_year_id |-> 1, name |-> "Red"]>>
    /\ memberships = {}
    /\ events = <<>>
    /\ resp = Response("admin_create_group", "admin", 1, 1, OK, "",
                       [camp_year |-> APP_SEED_CAMP_YEAR, name |-> "Red"], <<1>>)

NextRace ==
    \/ RegisterParentCheck
    \/ RegisterParentCommit
    \/ ParentEnrollCheck
    \/ ParentEnrollCommit
    \/ AdminAddGroupMemberCheck
    \/ AdminAddGroupMemberCommit
    \/ AdminCreateGroup

SpecRace == InitRace /\ [][NextRace]_vars

\* Enrollment: the first parent has added a child (camper 1) and the admin has
\* created camper 2, which nobody owns; the second parent owns no camper
InitEnroll ==
    /\ InitSessions
    /\ campers = <<NewCamper(<<"Ann", "Lee">>), NewCamper(<<"Ann", "Lee">>)>>
    /\ parent_campers = {[parent_user_id |-> 2, camper_id |-> 1]}
    /\ resp = Response("admin_create_camper", "admin", 1, 1, OK, "", <<>>, <<2>>)

NextEnroll ==
    \/ ParentEnroll
    \/ ParentUpdateEnrollment
    \/ ParentViewSchedule

SpecEnroll == InitEnroll /\ [][NextEnroll]_vars

\* The roster of the group specifications: the first parent has added two
\* children (campers 1 and 2) and the admin has created camper 3, which nobody
\* owns; the second parent owns no camper
InitRoster ==
    /\ InitSessions
    /\ campers = <<NewCamper(<<"Ann", "Lee">>), NewCamper(<<"Ann", "Lee">>),
                   NewCamper(<<"Ann", "Lee">>)>>
    /\ parent_campers = {[parent_user_id |-> 2, camper_id |-> 1],
                         [parent_user_id |-> 2, camper_id |-> 2]}

\* Groups and memberships
InitGroups ==
    /\ InitRoster
    /\ resp = Response("admin_create_camper", "admin", 1, 1, OK, "", <<>>, <<3>>)

NextGroups ==
    \/ AdminCreateGroup
    \/ AdminAddGroupMember
    \/ ParentViewSchedule

SpecGroups == InitGroups /\ [][NextGroups]_vars

\* Memberships, events and the schedule: the admin has created a group in
\* each of two camp years and a first event in group 1
FirstEvent == [group_id |-> 1, start_time |-> 2, end_time |-> 3]

InitSched ==
    /\ users = Accounts
    /\ tokens = Sessions
    /\ minted = Cardinality(Sessions)
    /\ now = 0
    /\ pending = {}
    /\ campers = <<NewCamper(<<"Ann", "Lee">>), NewCamper(<<"Ann", "Lee">>),
                   NewCamper(<<"Ann", "Lee">>)>>
    /\ parent_campers = {[parent_user_id |-> 2, camper_id |-> 1],
                         [parent_user_id |-> 2, camper_id |-> 2]}
    /\ camp_years = <<[year |-> APP_SEED_CAMP_YEAR, is_active |-> TRUE],
                      [year |-> APP_SEED_CAMP_YEAR + 1, is_active |-> FALSE]>>
    /\ enrollments = <<>>
    /\ groups = <<[camp_year_id |-> 1, name |-> "Red"],
                  [camp_year_id |-> 2, name |-> "Red"]>>
    /\ memberships = {}
    /\ events = <<FirstEvent>>
    /\ resp = Response("admin_create_event", "admin", 1, 1, OK, "", FirstEvent, <<1>>)

NextSched ==
    \/ AdminAddGroupMember
    \/ AdminCreateEvent
    \/ ParentViewSchedule

SpecSched == InitSched /\ [][NextSched]_vars

(***************************************************************************)
(* Properties                                                              *)
(***************************************************************************)
\* the step is a request (not the passing of time); resp' is its response
IsRequest == now' = now

\* the response comes from the handler: the dependency chain let the request of
\* user resp.user through
PassedGate(r) ==
    /\ r.user # None
    /\ r.status # Unauthorized
    /\ ~(r.status = Forbidden /\ r.detail = RoleDetail(r.role))

\* C1: on every endpoint that requires a role, an authenticated account is
\* stopped with 403 "Requires role" exactly when its role differs from the
\* required role; no role passes for another
C1_RoleGateExact ==
    (resp.role # "" /\ resp.user # None) =>
        ((resp.status = Forbidden /\ resp.detail = RoleDetail(resp.role))
            <=> users[resp.user].role # resp.role)

\* the admin asked for the parent schedule and got 403
C1_Witness ==
    /\ resp.op = "parent_view_schedule"
    /\ resp.user # None
    /\ users[resp.user].role = "admin"
    /\ resp.status = Forbidden
    /\ resp.detail = RoleDetail("parent")

TokenStored(toks, t) == \E tok \in toks : tok.token = t

\* C2: presenting a stored token after its expiry is answered 401 and removes
\* its row; a token value that was minted and is no longer stored stays
\* unstored, and presenting it is answered 401, whatever happened in between
C2_ExpiredTokenGone ==
    [][\A t \in 1..MaxTokens :
        /\ (IsRequest /\ resp'.cred = t
                /\ \E tok \in tokens : tok.token = t /\ tok.expires_at < now)
            => (resp'.status = Unauthorized /\ ~TokenStored(tokens', t))
        /\ (t <= minted /\ ~TokenStored(tokens, t))
            => /\ ~TokenStored(tokens', t)
               /\ (IsRequest /\ resp'.cred = t) => resp'.status = Unauthorized]_vars

\* a minted token was presented after its expiry, is gone, and newer sessions exist
C2_Witness ==
    /\ resp.cred \in 1..minted
    /\ resp.status = Unauthorized
    /\ ~TokenStored(tokens, resp.cred)
    /\ now > TOKEN_TTL_MINUTES
    /\ tokens # {}

\* the token value t resolves in this state: stored, not expired, owner active
Resolvable(t) ==
    \E tok \in tokens :
        /\ tok.token = t
        /\ ~(tok.expires_at < now)
        /\ tok.user_id \in 1..Len(users)
        /\ users[tok.user_id].is_active

\* the token value t is stored and not expired, but its owner is inactive
InactiveOwner(t) ==
    \E tok \in tokens :
        /\ tok.token = t
        /\ ~(tok.expires_at < now)
        /\ ~users[tok.user_id].is_active

\* C3: a request that goes through require_auth resolves to an account iff the
\* presented value is a stored, unexpired token of an active account, and then
\* to the token's owner; otherwise the answer is 401, and a token refused for
\* its inactive owner stays stored
C3_ResolveIff ==
    [][(IsRequest /\ resp'.op \in {"me", "admin_create_parent"}) =>
        /\ (resp'.user # None) <=> (resp'.cred # NoCred /\ Resolvable(resp'.cred))
        /\ resp'.user # None =>
              \E tok \in tokens : tok.token = resp'.cred /\ tok.user_id = resp'.user
        /\ resp'.user = None => resp'.status = Unauthorized
        /\ InactiveOwner(resp'.cred) =>
              (resp'.status = Unauthorized /\ tokens' = tokens)]_vars

\* the unexpired token of the inactive account was presented, refused and kept
C3_Witness ==
    /\ resp.op = "me"
    /\ resp.status = Unauthorized
    /\ InactiveOwner(resp.cred)

\* the accounts a login with (email, password) is good for
LoginMatches(email, password) ==
    {u \in 1..Len(users) :
        /\ users[u].email = email
        /\ users[u].is_active
        /\ users[u].password_hash = hash_password(password)}

\* C4: a login is answered 401 and stores no token when no active account has
\* that email with that password; otherwise it adds exactly one token row, owned
\* by that account, with a value no stored token has and expiry now + TTL
C4_Login ==
    [][(IsRequest /\ resp'.op = "login") =>
        LET good == LoginMatches(resp'.arg.email, resp'.arg.password) IN
        IF good = {}
        THEN resp'.status = Unauthorized /\ tokens' = tokens
        ELSE /\ resp'.status = OK
             /\ \E tok \in tokens' :
                    /\ tok \notin tokens
                    /\ tokens' = tokens \cup {tok}
                    /\ tok.user_id \in good
                    /\ \A old \in tokens : old.token # tok.token
                    /\ tok.expires_at = now + TOKEN_TTL_MINUTES
                    /\ resp'.out = <<tok>>]_vars

\* a login succeeded while other tokens were stored
C4_Witness ==
    /\ resp.op = "login"
    /\ resp.status = OK
    /\ resp.out[1] \in tokens
    /\ Cardinality(tokens) >= 2

UniqueEmails ==
    \A i, j \in 1..Len(users) : users[i].email = users[j].email => i = j

EmailPresent(email) == \E i \in 1..Len(users) : users[i].email = email

\* C6: no two accounts ever share an email, and a registration through either
\* endpoint with an email that is present is refused (400, "Email already ...")
\* and leaves the accounts as they were
C6_UniqueEmail ==
    /\ []UniqueEmails
    /\ [][(/\ IsRequest
           /\ \/ resp'.op = "register_parent"
              \/ resp'.op = "admin_create_parent" /\ PassedGate(resp')
           /\ EmailPresent(resp'.arg.email))
          => /\ resp'.status = BadRequest400
             /\ resp'.detail \in {"Email already registered", "Email already exists"}
             /\ users' = users]_vars

\* each endpoint has refused a duplicate: the last one the admin endpoint
C6_Witness ==
    /\ resp.op = "admin_create_parent"
    /\ resp.status = BadRequest400
    /\ Len(users) >= 2

Owns(user_id, camper_id) ==
    \E link \in parent_campers :
        link.parent_user_id = user_id /\ link.camper_id = camper_id

\* C5: a parent who has no ownership link to a camper is answered 403 when
\* enrolling that camper, when updating an enrollment of that camper and when
\* asking for the schedule filtered on that camper, and the enrollments stay
\* as they were
C5_OwnershipEverywhere ==
    [][(IsRequest /\ PassedGate(resp') /\ resp'.role = "parent") =>
        /\ (resp'.op = "parent_enroll" /\ ~Owns(resp'.user, resp'.arg.camper_id))
            => (resp'.status = Forbidden /\ enrollments' = enrollments)
        /\ (/\ resp'.op = "parent_update_enrollment"
            /\ resp'.arg.enrollment_id \in 1..Len(enrollments)
            /\ ~Owns(resp'.user, enrollments[resp'.arg.enrollment_id].camper_id))
            => (resp'.status = Forbidden /\ enrollments' = enrollments)
        /\ (/\ resp'.op = "parent_view_schedule"
            /\ resp'.arg.camper_id # None
            /\ ~Owns(resp'.user, resp'.arg.camper_id))
            => resp'.status = Forbidden]_vars

\* the year of the camp year an enrollment row points to
YearOf(cys, enr) == cys[enr.camp_year_id].year

UniqueEnrollments ==
    \A i, j \in 1..Len(enrollments) :
        (/\ enrollments[i].camp_year_id = enrollments[j].camp_year_id
         /\ enrollments[i].camper_id = enrollments[j].camper_id) => i = j

Enrolled(camper_id, year) ==
    \E i \in 1..Len(enrollments) :
        /\ enrollments[i].camper_id = camper_id
        /\ YearOf(camp_years, enrollments[i]) = year

\* C7: no two enrollments share (camp year, camper); when the owning parent
\* enrolls a pair that has an enrollment the answer is 400 "Already enrolled"
\* and the enrollments are as before, and when the pair has none a row with
\* status pending is appended for it
C7_UniqueEnrollment ==
    /\ []UniqueEnrollments
    /\ [][(/\ IsRequest
           /\ resp'.op = "parent_enroll"
           /\ PassedGate(resp')
           /\ Owns(resp'.user, resp'.arg.camper_id))
          => IF Enrolled(resp'.arg.camper_id, resp'.arg.camp_year)
             THEN /\ resp'.status = BadRequest400
                  /\ resp'.detail = "Already enrolled for this camp year"
                  /\ enrollments' = enrollments
             ELSE /\ resp'.status = OK
                  /\ Len(enrollments') = Len(enrollments) + 1
                  /\ SubSeq(enrollments', 1, Len(enrollments)) = enrollments
                  /\ LET enr == enrollments'[Len(enrollments')] IN
                        /\ enr.status = "pending"
                        /\ enr.notes = NoNotes
                        /\ enr.camper_id = resp'.arg.camper_id
                        /\ YearOf(camp_years', enr) = resp'.arg.camp_year]_vars

\* a second enrollment of a pair was refused after the first had been updated,
\* and the same camper is enrolled for the other year
C7_Witness ==
    /\ resp.op = "parent_enroll"
    /\ resp.status = BadRequest400
    /\ Len(enrollments) = 2
    /\ \E i \in 1..Len(enrollments) :
          /\ enrollments[i].camper_id = resp.arg.camper_id
          /\ YearOf(camp_years, enrollments[i]) = resp.arg.camp_year
          /\ enrollments[i].status = "admitted"

\* the (camper, group, event) triples the schedule of user_id must show
ExpectedTriples(user_id, camper_filter, year_filter) ==
    {t \in (1..Len(campers)) \X (1..Len(groups)) \X (1..Len(events)) :
        /\ Owns(user_id, t[1])
        /\ [group_id |-> t[2], camper_id |-> t[1]] \in memberships
        /\ events[t[3]].group_id = t[2]
        /\ camper_filter # None => t[1] = camper_filter
        /\ year_filter # None => camp_years[groups[t[2]].camp_year_id].year = year_filter}

\* C8: a schedule answered 200 holds exactly one record per triple (owned
\* camper, group the camper is a member of, event of that group) that passes
\* the camper filter and the camp-year filter, and no other record; each record
\* carries the event's times and the group's name
C8_ScheduleExact ==
    (resp.op = "parent_view_schedule" /\ resp.status = OK) =>
        LET want == ExpectedTriples(resp.user, resp.arg.camper_id, resp.arg.camp_year)
            out == resp.out IN
        /\ {<<out[i].camper_id, out[i].group_id, out[i].event_id>> : i \in 1..Len(out)} = want
        /\ Len(out) = Cardinality(want)
        /\ \A i \in 1..Len(out) :
              /\ out[i].start_time = events[out[i].event_id].start_time
              /\ out[i].end_time = events[out[i].event_id].end_time
              /\ out[i].group_name = groups[out[i].group_id].name

\* the unfiltered schedule of the parent of campers 1 and 2 has three records:
\* an event shown for both campers and a camper shown in two groups, while
\* camper 3, whom the parent does not own, is in a group with events
C8_Witness ==
    /\ resp.op = "parent_view_schedule"
    /\ resp.status = OK
    /\ resp.arg.camper_id = None
    /\ resp.arg.camp_year = None
    /\ Len(resp.out) = 3
    /\ \E i, j \in 1..3 : /\ resp.out[i].event_id = resp.out[j].event_id
                          /\ resp.out[i].camper_id # resp.out[j].camper_id
    /\ \E i, j \in 1..3 : /\ resp.out[i].camper_id = resp.out[j].camper_id
                          /\ resp.out[i].group_id # resp.out[j].group_id
    /\ \E m \in memberships, e \in 1..Len(events) :
          m.camper_id = 3 /\ events[e].group_id = m.group_id

\* C9: the records of a schedule answered 200 are in non-decreasing order of
\* start_time
C9_ScheduleSorted ==
    (resp.op = "parent_view_schedule" /\ resp.status = OK) =>
        \A i, j \in 1..Len(resp.out) :
            i < j => resp.out[i].start_time <= resp.out[j].start_time

\* an event created later but starting earlier comes first in the schedule
C9_Witness ==
    /\ resp.op = "parent_view_schedule"
    /\ resp.status = OK
    /\ \E i, j \in 1..Len(resp.out) :
          /\ i < j
          /\ resp.out[i].event_id > resp.out[j].event_id
          /\ resp.out[i].start_time < resp.out[j].start_time

EventsValid ==
    \A e \in 1..Len(events) :
        /\ events[e].end_time > events[e].start_time
        /\ events[e].group_id \in 1..Len(groups)

\* C10 as stated: whenever end_time <= start_time the answer is 400, whenever
\* the group does not exist the answer is 404, no row is stored in either
\* case, and every stored event is valid
C10_AsStated ==
    /\ []EventsValid
    /\ [][(IsRequest /\ resp'.op = "admin_create_event" /\ PassedGate(resp')) =>
            /\ resp'.arg.end_time <= resp'.arg.start_time
                => (resp'.status = BadRequest400 /\ events' = events)
            /\ resp'.arg.group_id \notin 1..Len(groups)
                => (resp'.status = NotFound /\ events' = events)]_vars

\* C10, amended: the group test comes first.  For a group that does not exist
\* the answer is 404 whatever the times; for an existing group and end_time <=
\* start_time the answer is 400; no row is stored in either case, and every
\* stored event has end_time > start_time and an existing group
C10_EventValidity ==
    /\ []EventsValid
    /\ [][(IsRequest /\ resp'.op = "admin_create_event" /\ PassedGate(resp')) =>
            /\ resp'.arg.group_id \notin 1..Len(groups)
                => (resp'.status = NotFound /\ events' = events)
            /\ (/\ resp'.arg.group_id \in 1..Len(groups)
                /\ resp'.arg.end_time <= resp'.arg.start_time)
                => (/\ resp'.status = BadRequest400
                    /\ resp'.detail = "end_time must be after start_time"
                    /\ events' = events)]_vars

\* an event with end_time equal to start_time was refused for an existing group
C10_Witness ==
    /\ resp.op = "admin_create_event"
    /\ resp.status = BadRequest400
    /\ resp.arg.group_id \in 1..Len(groups)
    /\ resp.arg.end_time = resp.arg.start_time

(***************************************************************************)
(* C11: parent_add_child is atomic                                         *)
(***************************************************************************)
\* the parent_add_child requests that have stored their camper and not ended
ChildPending(pend) == {p \in pend : p.op = "parent_add_child"}

\* the ownership link of request r's camper is stored
Linked(pcs, r) ==
    \E l \in pcs : l.parent_user_id = r.user /\ l.camper_id = r.camper_id

\* C11: the camper row of parent_add_child and its ownership link are committed
\* together or not at all: no other request (here the admin's list of campers)
\* is shown a camper of a parent_add_child still without its link, and when a
\* parent_add_child request ends, in success or in failure, its camper is
\* stored with its link or not stored at all.
C11_AddChildAtomic ==
    [][/\ (resp'.op = "admin_list_campers" /\ resp'.status = OK) =>
            \A r \in ChildPending(pending') :
                \A i \in 1..Len(resp'.out) : resp'.out[i] # r.camper_id
       /\ \A r \in ChildPending(pending) \ pending' :
            \/ Linked(parent_campers', r)
            \/ r.camper_id \notin 1..Len(campers')]_vars

(***************************************************************************)
(* C12: concurrent inserts of one unique key                               *)
(***************************************************************************)
\* the statuses a uniqueness conflict is reported with (400 in this code,
\* 409 elsewhere)
ConflictStatuses == {BadRequest400, 409}

\* the unique key of waiting request r is stored by now: r lost the race
KeyStored(r) ==
    CASE r.op = "register_parent" -> EmailTaken(users, r.row.email)
      [] r.op = "parent_enroll" ->
            EnrollmentFor(enrollments, r.row.camp_year_id, r.row.camper_id) # None
      [] r.op = "admin_add_group_member" ->
            MembershipExists(memberships, r.row.group_id, r.row.camper_id)
      [] OTHER -> FALSE

UniqueGroupNames ==
    \A i, j \in 1..Len(groups) :
        (groups[i].camp_year_id = groups[j].camp_year_id
            /\ groups[i].name = groups[j].name) => i = j

\* C12: of two requests that passed the existence test for the same unique key
\* before either committed, one insert is stored and the other request is
\* answered with Conflict and stores nothing; no key is ever stored twice.
C12_RaceConflict ==
    /\ [](UniqueEmails /\ UniqueEnrollments /\ UniqueGroupNames)
    /\ [][\A r \in Inserting(pending) \ pending' :
            KeyStored(r) =>
                /\ resp'.op = r.op
                /\ resp'.status \in ConflictStatuses
                /\ UNCHANGED <<users, enrollments, memberships, groups>>]_vars

(***************************************************************************)
(* C13: group names are unique within a camp year                          *)
(***************************************************************************)
\* the request answered by resp' names a (camp year, name) that groups holds
DuplicateGroup(r) ==
    LET cy == CampYearByYear(camp_years, r.arg.camp_year) IN
    /\ cy # None
    /\ GroupNameTaken(groups, cy, r.arg.name)

\* C13: a group creation with a (camp year, name) that is already stored fails
\* with Conflict and leaves the groups unchanged; with a name that is stored
\* only under other camp years it succeeds and adds the group to the camp year
\* of the request, which is looked up or created.
C13_GroupNameUnique ==
    [][(/\ resp' # resp
        /\ resp'.op = "admin_create_group"
        /\ PassedGate(resp')) =>
            IF DuplicateGroup(resp')
            THEN /\ resp'.status \in ConflictStatuses
                 /\ groups' = groups
            ELSE (\E i \in 1..Len(groups) : groups[i].name = resp'.arg.name) =>
                    /\ resp'.status = OK
                    /\ Len(groups') = Len(groups) + 1
                    /\ groups'[Len(groups')].name = resp'.arg.name
                    /\ camp_years'[groups'[Len(groups')].camp_year_id].year =
                            resp'.arg.camp_year]_vars

(***************************************************************************)
(* C14: failed and read-only requests change nothing                       *)
(***************************************************************************)
\* the endpoints that only read
ReadOnlyOps == {"me", "admin_list_campers", "parent_view_schedule"}

\* C14: a request that ends in an error, and a read-only request, leaves every
\* table as it was, except that the expired token it presented is deleted; in
\* particular it leaves no camp year behind.
C14_ErrorsChangeNothing ==
    [][(IsRequest /\ (resp'.status # OK \/ resp'.op \in ReadOnlyOps)) =>
            /\ UNCHANGED <<users, campers, parent_campers, camp_years, enrollments,
                           groups, memberships, events>>
            /\ \/ tokens' = tokens
               \/ \E t \in tokens :
                    /\ t.token = resp'.cred
                    /\ t.expires_at < now
                    /\ tokens' = tokens \ {t}]_vars

(***************************************************************************)
(* C15: a token is removed only by its own expired resolve                 *)
(***************************************************************************)
\* C15: a step removes a token row only when it is a request presenting that
\* token's value after its expiry, and then it removes that row alone; every
\* other step (login, registration, the resolve of another token, the passing
\* of time) keeps all token rows as they are.  So a stored token of an active
\* account that has not expired resolves to the account whatever tokens were
\* issued to the account later.
C15_TokenRemovedOnlyByOwnResolve ==
    [][/\ \A t \in tokens \ tokens' :
            /\ IsRequest
            /\ resp'.cred = t.token
            /\ t.expires_at < now
            /\ tokens' = tokens \ {t}
       /\ \A t \in tokens :
            (/\ IsRequest
             /\ resp'.cred = t.token
             /\ ~(t.expires_at < now)
             /\ ActiveUser(users, t.user_id) # None) =>
                /\ resp'.user = t.user_id
                /\ resp'.status # Unauthorized
                /\ t \in tokens']_vars

\* an account holding a later token is resolved through its earlier one, while
\* an expired token that was never presented is still stored
C15_Witness ==
    /\ resp.op = "me"
    /\ resp.status = OK
    /\ \E later \in tokens : later.user_id = resp.user /\ later.token > resp.cred
    /\ \E old \in tokens : old.expires_at < now

(***************************************************************************)
(* C16: expiry is a strict comparison                                      *)
(***************************************************************************)
\* C16: a login stores a token with expires_at = now + TTL; a stored token
\* presented at any time up to and including its expires_at is kept and, when
\* its owner is active, resolves to the owner; presented at a time strictly
\* later than expires_at it is refused with 401 and deleted.
C16_StrictExpiry ==
    [][/\ (IsRequest /\ resp'.op = "login" /\ resp'.status = OK /\ resp' # resp) =>
            resp'.out[1].expires_at = now + TOKEN_TTL_MINUTES
       /\ \A t \in tokens :
            (IsRequest /\ resp'.cred = t.token) =>
                IF now <= t.expires_at
                THEN /\ t \in tokens'
                     /\ ActiveUser(users, t.user_id) # None =>
                            /\ resp'.user = t.user_id
                            /\ resp'.status # Unauthorized
                ELSE /\ t \notin tokens'
                     /\ resp'.status = Unauthorized
                     /\ resp'.user = None]_vars

\* a token presented at the very minute of its expires_at has resolved
C16_Witness ==
    /\ resp.op = "me"
    /\ resp.status = OK
    /\ \E t \in tokens : t.token = resp.cred /\ t.expires_at = now

====
